---- MODULE Spec2Model ----
(***************************************************************************)
(* Model of bot.py: the per-chat message buffers kept in bot_data, the     *)
(* handlers start_command, help_command, store_message and tldr_command,   *)
(* and the PicklePersistence blob the Application loads at start-up.       *)
(*                                                                         *)
(* A handler is a coroutine; it can only be suspended at an `await`.       *)
(* Every action below is the code between two awaits of one handler.       *)
(* store_message has no await, so it is one action.                        *)
(***************************************************************************)
EXTENDS Integers, Sequences, FiniteSets, TLC

\* ---------------------------------------------------------------- bounds
\* bot.py:55 sets MAX_BUFFER_SIZE = 150; the model runs the same code with a
\* small capacity (above MIN_MESSAGES, so that a buffer can be summarized
\* before it is full and can still grow while it is being summarized).
MAX_BUFFER_SIZE == 4
MaxUpdates == 5
MaxTasks == 2

\* ------------------------------------------------------------- constants
MESSAGE_BUFFER_KEY == "message_buffer"
MIN_MESSAGES == 3

\* update.effective_chat.id: this chat and another one
Chats == {1, 2}
Tasks == 1..MaxTasks

None == "None"

\* update.effective_user: first_name and username as Telegram delivers them.
Users ==
  { [first_name |-> "Ann", username |-> None],
    [first_name |-> "", username |-> None] }

\* update.message.text
Texts == {"", "hi"}

\* What gemini_model.generate_content_async / response.text can produce:
\* the call raises, the response has no text part (response.text raises),
\* the text is empty, the text is a summary.
Responses == {"raise", "no_text", "", "- summary"}

\* ------------------------------------------------------------- the state
VARIABLES
  bot_data,     \* context.bot_data: {MESSAGE_BUFFER_KEY: {chat_id: [message, ...]}}
  pickle,       \* the content of tldr_bot_data.pkl
  tasks,        \* the handler coroutines in flight; one that returned is kept
                \* until the next update is handled
  clock,        \* datetime.now(timezone.utc), one tick per stored message
  update_id,    \* number of updates handed to handlers so far
  last_update,  \* the update this process handed to a handler most recently
  appended      \* per chat: the messages stored since the last clear / reload

vars == <<bot_data, pickle, tasks, clock, update_id, last_update, appended>>

\* ---------------------------------------------------------- dictionaries
EmptyDict == [k \in {} |-> 0]

\* dict.setdefault(k, v)
setdefault(d, k, v) ==
  IF k \in DOMAIN d THEN d
  ELSE [x \in (DOMAIN d) \cup {k} |-> IF x = k THEN v ELSE d[x]]

\* d[k] = v
setitem(d, k, v) == [x \in (DOMAIN d) \cup {k} |-> IF x = k THEN v ELSE d[x]]

\* d.get(k, default)
get(d, k, default) == IF k \in DOMAIN d THEN d[k] ELSE default

\* context.bot_data.get(MESSAGE_BUFFER_KEY, {}).get(chat_id, [])
Snapshot(bd, chat_id) == get(get(bd, MESSAGE_BUFFER_KEY, EmptyDict), chat_id, <<>>)

HasBuffer(bd, chat_id) ==
  /\ MESSAGE_BUFFER_KEY \in DOMAIN bd
  /\ chat_id \in DOMAIN bd[MESSAGE_BUFFER_KEY]

\* ------------------------------------------------------ store_message
\* a text test that lets the empty string through
NotTextNoneOnly(text) == text = None

\* line 89: `if not text` is true of None and of the empty string
NotText(text) == text = None \/ text = ""

\* line 99: author = user.first_name or user.username
AuthorOf(user) == IF user.first_name # "" /\ user.first_name # None
                  THEN user.first_name ELSE user.username

\* an eviction loop that never runs
EvictNothing(buffer) == buffer

\* an eviction that drops the newest messages instead of the oldest
EvictNewest(buffer) ==
  IF Len(buffer) > MAX_BUFFER_SIZE THEN SubSeq(buffer, 1, MAX_BUFFER_SIZE) ELSE buffer

\* lines 108-109: while len(buffer) > MAX_BUFFER_SIZE: buffer.pop(0)
RECURSIVE Evict(_)
Evict(buffer) ==
  IF Len(buffer) > MAX_BUFFER_SIZE THEN Evict(Tail(buffer)) ELSE buffer

\* lines 93-95: create the chat's buffer if it is new
InitBuffer(bd, chat_id) ==
  LET bd1 == setdefault(bd, MESSAGE_BUFFER_KEY, EmptyDict)
  IN  IF chat_id \in DOMAIN bd1[MESSAGE_BUFFER_KEY] THEN bd1
      ELSE setitem(bd1, MESSAGE_BUFFER_KEY, setitem(bd1[MESSAGE_BUFFER_KEY], chat_id, <<>>))

\* a store that puts the new message in front of the older ones
AppendAtHead(bd, chat_id, message_data) ==
  LET bd1 == InitBuffer(bd, chat_id)
      buffer == <<message_data>> \o bd1[MESSAGE_BUFFER_KEY][chat_id]
  IN  setitem(bd1, MESSAGE_BUFFER_KEY,
              setitem(bd1[MESSAGE_BUFFER_KEY], chat_id, Evict(buffer)))

\* lines 93-109: the store after a message with a non-empty text is stored
AppendMessage(bd, chat_id, message_data) ==
  LET bd1 == InitBuffer(bd, chat_id)
      buffer == Append(bd1[MESSAGE_BUFFER_KEY][chat_id], message_data)
  IN  setitem(bd1, MESSAGE_BUFFER_KEY,
              setitem(bd1[MESSAGE_BUFFER_KEY], chat_id, Evict(buffer)))

\* a /start that assigns an empty buffer instead of using setdefault
EnsureConversationResets(bd, chat_id) ==
  LET bd1 == setdefault(bd, MESSAGE_BUFFER_KEY, EmptyDict)
  IN  setitem(bd1, MESSAGE_BUFFER_KEY, setitem(bd1[MESSAGE_BUFFER_KEY], chat_id, <<>>))

\* lines 62-63: the two setdefault calls of /start
EnsureConversation(bd, chat_id) ==
  LET bd1 == setdefault(bd, MESSAGE_BUFFER_KEY, EmptyDict)
  IN  setitem(bd1, MESSAGE_BUFFER_KEY, setdefault(bd1[MESSAGE_BUFFER_KEY], chat_id, <<>>))

\* a clear that empties the buffer of every chat
ClearAll(bd, chat_id) ==
  setitem(bd, MESSAGE_BUFFER_KEY,
          [c \in DOMAIN bd[MESSAGE_BUFFER_KEY] |-> <<>>])

\* a clear that leaves the buffer as it is
ClearNothing(bd, chat_id) == bd

\* line 155: context.bot_data[MESSAGE_BUFFER_KEY][chat_id] = []
Clear(bd, chat_id) ==
  setitem(bd, MESSAGE_BUFFER_KEY, setitem(bd[MESSAGE_BUFFER_KEY], chat_id, <<>>))

\* ------------------------------------------------------- tldr_command
\* a threshold test that also declines exactly MIN_MESSAGES messages
TooFewInclusive(message_buffer) == Len(message_buffer) <= MIN_MESSAGES

\* line 116: the trigger is declined when len(message_buffer) < 3
TooFew(message_buffer) == Len(message_buffer) < MIN_MESSAGES

\* line 122: "\n".join(f"{author}: {text}" for _, author, text in message_buffer);
\* one <<author, text>> line per message, the timestamp is not part of it
Conversation(message_buffer) ==
  [i \in 1..Len(message_buffer) |-> <<message_buffer[i][2], message_buffer[i][3]>>]

\* lines 136-137: generate_content_async returned and response.text is a string
HasText(response) == response # "raise" /\ response # "no_text"

\* an except clause that also resets the buffer
ExceptClauseClears(bd, chat_id) == Clear(bd, chat_id)

\* lines 158-163: the except clause logs and apologises; it does not touch the store
ExceptClause(bd, chat_id) == bd

\* an except clause that calls the summarizer again
RetryAfterError == "notify"

\* lines 158-160: an exception in the try body leads to the apology
AfterError == "apology"

\* an except clause that only logs
ApologyMissing == "none"

\* lines 160-163: the except clause reports the generic failure
Apology == "Failure"

\* lines 164-165: the finally clause follows the try body ...
AfterTry == "delete"

\* a cleanup that is skipped when the except clause ran
AfterExceptReturns == "done"

\* ... and the except clause
AfterExcept == "delete"

\* --------------------------------------------------------- the dispatcher
\* an Application built with .concurrent_updates(True)
concurrent_updates_on == TRUE

\* lines 191-197: the Application is built without .concurrent_updates(...),
\* and lines 200-206 add every handler with the default block=True: the
\* Application awaits the handler of one update before it fetches the next.
concurrent_updates == FALSE

IdleTask ==
  [ kind |-> "none", chat_id |-> 0, pc |-> "idle",
    live |-> FALSE,            \* message_buffer is the list object held by the store
    message_buffer |-> <<>>,   \* the list object, once the store holds another one
    at_trigger |-> <<>>,       \* the buffer as line 114 found it
    announced |-> 0,           \* the count in the processing notification (line 120)
    prompt |-> <<>>,           \* the conversation sent to the summarizer
    calls |-> 0,               \* calls of generate_content_async
    summary |-> None,          \* response.text
    final_count |-> 0,         \* the count in final_text (line 147)
    processing_message |-> "none",  \* "shown" by line 120, "deleted" once line 165 called delete()
    outcome |-> "none",        \* the outcome the handler reports to the chat
    cleared |-> FALSE,         \* line 155 ran
    raised |-> FALSE ]         \* an exception left the handler

Busy(t) == tasks[t].pc \notin {"idle", "done"}

\* an update can be handed to a handler
CanDispatch ==
  /\ update_id < MaxUpdates
  /\ concurrent_updates \/ \A t \in Tasks : ~Busy(t)

HasSlot == \E t \in Tasks : ~Busy(t)

Slot == CHOOSE t \in Tasks : ~Busy(t) /\ \A u \in Tasks : ~Busy(u) => t <= u

\* the list a handler's local message_buffer refers to
MessageBuffer(task) ==
  IF task.live THEN bot_data[MESSAGE_BUFFER_KEY][task.chat_id] ELSE task.message_buffer

Update(chat_id, text) == [chat_id |-> chat_id, text |-> text]

\* no update was handled since the process started
NoUpdate == Update(0, None)

\* the coroutines still in flight when the next update is handled
InFlight == [t \in Tasks |-> IF Busy(t) THEN tasks[t] ELSE IdleTask]

Init ==
  /\ bot_data = EmptyDict
  /\ pickle = EmptyDict
  /\ tasks = [t \in Tasks |-> IdleTask]
  /\ clock = 0
  /\ update_id = 0
  /\ last_update = NoUpdate
  /\ appended = [c \in Chats |-> <<>>]

\* lines 59-63, up to the await of reply_text
start_command(chat_id) ==
  /\ CanDispatch /\ HasSlot
  /\ bot_data' = EnsureConversation(bot_data, chat_id)
  /\ tasks' = [InFlight EXCEPT ![Slot] =
                 [IdleTask EXCEPT !.kind = "start", !.chat_id = chat_id, !.pc = "reply"]]
  /\ update_id' = update_id + 1
  /\ last_update' = Update(chat_id, "/start")
  /\ UNCHANGED <<pickle, clock, appended>>

\* lines 72-74, up to the await of reply_text
help_command(chat_id) ==
  /\ CanDispatch /\ HasSlot
  /\ tasks' = [InFlight EXCEPT ![Slot] =
                 [IdleTask EXCEPT !.kind = "help", !.chat_id = chat_id, !.pc = "reply"]]
  /\ update_id' = update_id + 1
  /\ last_update' = Update(chat_id, "/help")
  /\ UNCHANGED <<bot_data, pickle, clock, appended>>

\* lines 82-109: store_message never awaits
store_message(chat_id, user, text) ==
  /\ CanDispatch
  /\ update_id' = update_id + 1
  /\ last_update' = Update(chat_id, text)
  /\ IF NotText(text)
     THEN UNCHANGED <<bot_data, clock, appended>>
     ELSE LET message_data == <<clock + 1, AuthorOf(user), text>>
          IN  /\ bot_data' = AppendMessage(bot_data, chat_id, message_data)
              /\ clock' = clock + 1
              /\ appended' = [appended EXCEPT ![chat_id] = Append(@, message_data)]
  /\ tasks' = InFlight
  /\ UNCHANGED pickle

\* lines 111-120, up to the first await (reply_text of line 117 or of line 120)
tldr_command(chat_id) ==
  /\ CanDispatch /\ HasSlot
  /\ LET message_buffer == Snapshot(bot_data, chat_id)
     IN  tasks' = [InFlight EXCEPT ![Slot] =
           IF TooFew(message_buffer)
           THEN [IdleTask EXCEPT !.kind = "tldr", !.chat_id = chat_id, !.pc = "reply",
                                 !.at_trigger = message_buffer,
                                 !.outcome = "InsufficientHistory"]
           ELSE [IdleTask EXCEPT !.kind = "tldr", !.chat_id = chat_id, !.pc = "notify",
                                 !.live = TRUE, !.at_trigger = message_buffer,
                                 !.announced = Len(message_buffer)]]
  /\ update_id' = update_id + 1
  /\ last_update' = Update(chat_id, "/tldr")
  /\ UNCHANGED <<bot_data, pickle, clock, appended>>

\* the reply_text of lines 65, 74 or 117 returns (ok) or raises; the handler ends
reply_returns(t, ok) ==
  /\ tasks[t].pc = "reply"
  /\ tasks' = [tasks EXCEPT ![t].pc = "done", ![t].raised = ~ok]
  /\ UNCHANGED <<bot_data, pickle, clock, update_id, last_update, appended>>

\* line 120 returns or raises; lines 122-136 up to the await of the summarizer
tldr_notified(t, ok) ==
  /\ tasks[t].pc = "notify"
  /\ tasks' = [tasks EXCEPT ![t] =
       IF ok
       THEN [@ EXCEPT !.processing_message = "shown",
                      !.prompt = Conversation(MessageBuffer(tasks[t])),
                      !.calls = @ + 1,
                      !.pc = "summarizing"]
       ELSE [@ EXCEPT !.raised = TRUE, !.pc = "done"]]
  /\ UNCHANGED <<bot_data, pickle, clock, update_id, last_update, appended>>

\* line 136 returns or raises; lines 137-149 up to the await of send_message,
\* or lines 158-160 up to the await of the apology
tldr_summarized(t, response) ==
  /\ tasks[t].pc = "summarizing"
  /\ IF HasText(response)
     THEN /\ tasks' = [tasks EXCEPT ![t].summary = response,
                                    ![t].final_count = Len(MessageBuffer(tasks[t])),
                                    ![t].pc = "send"]
          /\ UNCHANGED bot_data
     ELSE /\ tasks' = [tasks EXCEPT ![t].outcome = Apology, ![t].pc = AfterError]
          /\ bot_data' = ExceptClause(bot_data, tasks[t].chat_id)
  /\ UNCHANGED <<pickle, clock, update_id, last_update, appended>>

\* line 149 returns: lines 155-156, then the finally clause up to its await;
\* line 149 raises: lines 158-160 up to the await of the apology
tldr_sent(t, ok) ==
  /\ tasks[t].pc = "send"
  /\ IF ok
     THEN LET chat_id == tasks[t].chat_id
              old == bot_data[MESSAGE_BUFFER_KEY][chat_id]
              new == Clear(bot_data, chat_id)
          IN  /\ bot_data' = new
              /\ tasks' = [u \in Tasks |->
                   LET task == IF tasks[u].live /\ tasks[u].chat_id = chat_id
                               THEN [tasks[u] EXCEPT !.live = FALSE, !.message_buffer = old]
                               ELSE tasks[u]
                   IN  IF u = t
                       THEN [task EXCEPT !.outcome = "Success", !.cleared = TRUE,
                                         !.pc = AfterTry]
                       ELSE task]
              /\ appended' = [appended EXCEPT ![chat_id] = Snapshot(new, chat_id)]
     ELSE /\ tasks' = [tasks EXCEPT ![t].outcome = Apology, ![t].pc = AfterError]
          /\ bot_data' = ExceptClause(bot_data, tasks[t].chat_id)
          /\ UNCHANGED appended
  /\ UNCHANGED <<pickle, clock, update_id, last_update>>

\* line 160 returns or raises; then the finally clause up to its await
tldr_apologized(t, ok) ==
  /\ tasks[t].pc = "apology"
  /\ tasks' = [tasks EXCEPT ![t].raised = ~ok,
                            ![t].pc = AfterExcept]
  /\ UNCHANGED <<bot_data, pickle, clock, update_id, last_update, appended>>

\* line 165 returns or raises; the handler ends
tldr_deleted(t, ok) ==
  /\ tasks[t].pc = "delete"
  /\ tasks' = [tasks EXCEPT ![t].processing_message = "deleted",
                            ![t].raised = @ \/ ~ok,
                            ![t].pc = "done"]
  /\ UNCHANGED <<bot_data, pickle, clock, update_id, last_update, appended>>

\* lines 187, 194: PicklePersistence writes bot_data to the file when the
\* Application's periodic persistence update (or its shutdown) runs, not when
\* a handler changes bot_data
update_persistence ==
  /\ pickle # bot_data
  /\ pickle' = bot_data
  /\ UNCHANGED <<bot_data, tasks, clock, update_id, last_update, appended>>

\* the process dies and main() runs again: bot_data is loaded from the file,
\* the coroutines are gone (a process that handled no update yet holds what
\* the file holds, so only a process that handled one is restarted)
restart ==
  /\ last_update # NoUpdate
  /\ last_update' = NoUpdate
  /\ bot_data' = pickle
  /\ tasks' = [t \in Tasks |-> IdleTask]
  /\ appended' = [c \in Chats |-> Snapshot(pickle, c)]
  /\ UNCHANGED <<pickle, clock, update_id>>

Next ==
  \/ \E chat_id \in Chats : start_command(chat_id)
  \/ \E chat_id \in Chats : help_command(chat_id)
  \/ \E chat_id \in Chats, user \in Users, text \in Texts : store_message(chat_id, user, text)
  \/ \E chat_id \in Chats : tldr_command(chat_id)
  \/ \E t \in Tasks, ok \in BOOLEAN : reply_returns(t, ok)
  \/ \E t \in Tasks, ok \in BOOLEAN : tldr_notified(t, ok)
  \/ \E t \in Tasks, response \in Responses : tldr_summarized(t, response)
  \/ \E t \in Tasks, ok \in BOOLEAN : tldr_sent(t, ok)
  \/ \E t \in Tasks, ok \in BOOLEAN : tldr_apologized(t, ok)
  \/ \E t \in Tasks, ok \in BOOLEAN : tldr_deleted(t, ok)
  \/ update_persistence
  \/ restart

Spec == Init /\ [][Next]_vars

\* ================================================================ claims
Buffer(chat_id) == Snapshot(bot_data, chat_id)

\* the summarizer was called for this trigger and gave no text (it raised, or
\* response.text raised)
SummarizerFailed(task) ==
  task.kind = "tldr" /\ task.calls > 0 /\ task.summary = None
  /\ task.pc \in {"apology", "delete", "done"}

\* C1: in every reachable state every chat's buffer has between 0 and
\* MAX_BUFFER_SIZE messages (store_message is one step: no state lies inside it).
C1_BufferBounded ==
  \A chat_id \in Chats :
    Len(Buffer(chat_id)) >= 0 /\ Len(Buffer(chat_id)) <= MAX_BUFFER_SIZE

\* a full buffer that has already evicted a message
C1_Witness ==
  \E chat_id \in Chats :
    Len(Buffer(chat_id)) = MAX_BUFFER_SIZE
    /\ Len(appended[chat_id]) > Len(Buffer(chat_id))

\* C2: after more than MAX_BUFFER_SIZE messages were stored for a chat with no
\* clear in between, its buffer is exactly the last MAX_BUFFER_SIZE of them,
\* in the order they were stored.
C2_KeepsNewest ==
  \A chat_id \in Chats :
    Len(appended[chat_id]) > MAX_BUFFER_SIZE =>
      Buffer(chat_id) = SubSeq(appended[chat_id],
                               Len(appended[chat_id]) - MAX_BUFFER_SIZE + 1,
                               Len(appended[chat_id]))

\* more messages were stored for one chat than its buffer holds
C2_Witness ==
  \E chat_id \in Chats :
    Len(appended[chat_id]) > MAX_BUFFER_SIZE /\ HasBuffer(bot_data, chat_id)

\* C3: every step a trigger takes after its summarizer call failed, up to and
\* including its return, leaves the chat's buffer as line 114 found it, and
\* line 155 never runs for it.
C3_FailureKeepsBuffer ==
  [][\A t \in Tasks :
       (SummarizerFailed(tasks[t]) /\ Busy(t) /\ tasks'[t].pc \in {"delete", "done"})
       => /\ Snapshot(bot_data', tasks[t].chat_id) = tasks[t].at_trigger
          /\ ~tasks'[t].cleared]_vars

\* a trigger returned after its summarizer call failed
C3_Witness ==
  \E t \in Tasks :
    /\ SummarizerFailed(tasks[t]) /\ tasks[t].pc = "done"
    /\ tasks[t].outcome = "Failure"
    /\ Buffer(tasks[t].chat_id) = tasks[t].at_trigger

\* the step in which the handler of task t returns
Returns(t) == Busy(t) /\ tasks'[t].pc = "done"

\* C4 as stated: a trigger on at least 3 messages whose summarizer call
\* returned a summary returns with the chat's buffer empty.
C4_Original ==
  [][\A t \in Tasks :
       (Returns(t) /\ tasks[t].kind = "tldr" /\ tasks[t].summary = "- summary")
       => Snapshot(bot_data', tasks[t].chat_id) = <<>>]_vars

\* C4 amended: a trigger on at least 3 messages whose summarizer call returned
\* a summary and whose result message was sent (line 149 returned) returns
\* with the chat's buffer empty.
C4_SuccessClears ==
  [][\A t \in Tasks :
       (Returns(t) /\ tasks[t].kind = "tldr" /\ tasks[t].outcome = "Success")
       => Snapshot(bot_data', tasks[t].chat_id) = <<>>]_vars

\* a trigger returned after it sent its summary
C4_Witness ==
  \E t \in Tasks :
    /\ tasks[t].pc = "done" /\ tasks[t].outcome = "Success"
    /\ Len(tasks[t].at_trigger) >= MIN_MESSAGES
    /\ tasks[t].summary = "- summary"
    /\ Buffer(tasks[t].chat_id) = <<>>

\* the step in which a /tldr update is handed to task t
Triggered(t) ==
  /\ update_id' = update_id + 1 /\ last_update'.text = "/tldr"
  /\ ~Busy(t) /\ tasks'[t].kind = "tldr" /\ tasks'[t].pc \in {"reply", "notify"}

\* the trigger of task t was declined
Declined(task) == task.kind = "tldr" /\ task.outcome = "InsufficientHistory"

\* C5: a trigger is declined exactly when the chat has fewer than 3 buffered
\* messages (or no buffer); a declined trigger reports InsufficientHistory,
\* never calls the summarizer, never sends the processing notification, and
\* neither its first step nor its return changes the store.
C5_DeclinedBelowThree ==
  [][\A t \in Tasks :
       /\ Triggered(t) =>
            /\ Declined(tasks'[t]) <=> Len(Buffer(last_update'.chat_id)) < 3
            /\ Declined(tasks'[t]) => tasks'[t].pc = "reply" /\ bot_data' = bot_data
       /\ (Declined(tasks[t]) /\ Returns(t)) =>
            /\ bot_data' = bot_data
            /\ Declined(tasks'[t])
            /\ tasks'[t].calls = 0 /\ tasks'[t].prompt = <<>>
            /\ tasks'[t].processing_message = "none"
            /\ ~tasks'[t].cleared]_vars

\* a declined trigger on a chat that has no buffer has returned
C5_Witness ==
  \E t \in Tasks :
    /\ Declined(tasks[t]) /\ tasks[t].pc = "done"
    /\ ~HasBuffer(bot_data, tasks[t].chat_id)
    /\ \E other \in Chats : Len(Buffer(other)) > 0

\* C6 as stated: when the summarizer returns an empty summary text the trigger
\* fails: the buffer is not cleared and the outcome is not the success message.
C6_EmptySummaryFails ==
  \A t \in Tasks :
    (tasks[t].kind = "tldr" /\ tasks[t].summary = "" /\ tasks[t].pc = "done")
    => ~tasks[t].cleared /\ tasks[t].outcome = "Failure"

\* C7: no message is stored for a chat between the moment a trigger built its
\* prompt and the moment it clears the buffer, and line 155 discards nothing
\* but what the summarizer was sent: when a trigger clears the buffer, the
\* buffer holds exactly the messages of its prompt. So every stored message is
\* evicted by the capacity rule, part of the prompt of a successful summary,
\* or still buffered.
C7_ClearDropsOnlySummarized ==
  [][\A t \in Tasks :
       /\ tasks'[t].pc \in {"summarizing", "send"}
            => Conversation(Snapshot(bot_data', tasks'[t].chat_id)) = tasks'[t].prompt
       /\ (tasks[t].pc = "send" /\ tasks'[t].cleared)
            => Conversation(Buffer(tasks[t].chat_id)) = tasks[t].prompt]_vars

\* a trigger has just cleared the buffer it summarized
C7_Witness ==
  \E t \in Tasks :
    /\ tasks[t].cleared /\ tasks[t].pc = "delete"
    /\ Len(tasks[t].prompt) >= MIN_MESSAGES
    /\ Buffer(tasks[t].chat_id) = <<>>

\* C8: no trigger returns with its processing notification still shown:
\* delete() is called on it after the try body, after the except clause, and
\* when the except clause itself raises.
C8_NotificationRetracted ==
  \A t \in Tasks :
    tasks[t].pc = "done" => tasks[t].processing_message # "shown"

\* a trigger whose apology could not be sent has returned, its notification deleted
C8_Witness ==
  \E t \in Tasks :
    /\ tasks[t].pc = "done" /\ tasks[t].processing_message = "deleted"
    /\ tasks[t].outcome = "Failure" /\ tasks[t].raised

\* C9 as stated: a restart leaves every chat's buffer as it was.
C9_RestartKeepsBuffers ==
  [][(last_update # NoUpdate /\ last_update' = NoUpdate) =>
       \A chat_id \in Chats : Snapshot(bot_data', chat_id) = Buffer(chat_id)]_vars

\* C10: handing a message with an empty text to store_message changes no
\* buffer and creates none.
C10_EmptyTextIgnored ==
  [][(update_id' = update_id + 1 /\ last_update'.text = "") => bot_data' = bot_data]_vars

\* an empty text was the last update, for a chat that has no buffer
C10_Witness ==
  /\ update_id > 0 /\ last_update.text = ""
  /\ ~HasBuffer(bot_data, last_update.chat_id)
  /\ \E other \in Chats : Len(Buffer(other)) > 0

\* the step in which the process is restarted
Restarted == last_update # NoUpdate /\ last_update' = NoUpdate

\* the step in which an update is handed to a handler
Handled == update_id' = update_id + 1

Commands == {"/start", "/help", "/tldr"}

\* C11 as stated: every message in every buffer has a non-empty author and a
\* non-empty text (a message whose sender has neither a first name nor a
\* username is dropped).
C11_AuthorsNonEmpty ==
  \A chat_id \in Chats :
    \A i \in 1..Len(Buffer(chat_id)) :
      /\ Buffer(chat_id)[i][2] \notin {None, ""}
      /\ Buffer(chat_id)[i][3] \notin {None, ""}

\* C12 as stated: while a trigger is suspended in the summarizer call, a text
\* message for another chat can be handled (as long as updates remain).
C12_OtherChatNotBlocked ==
  \A t \in Tasks :
    (tasks[t].pc = "summarizing" /\ update_id < MaxUpdates)
    => \A chat_id \in Chats \ {tasks[t].chat_id} :
         \A user \in Users : ENABLED store_message(chat_id, user, "hi")

\* C13: /start gives a chat without a buffer an empty one, leaves a buffer
\* that exists as it is (so a second /start changes nothing), and changes no
\* other chat's buffer.
C13_StartIdempotent ==
  [][(Handled /\ last_update'.text = "/start") =>
       LET chat_id == last_update'.chat_id
       IN  /\ HasBuffer(bot_data', chat_id)
           /\ Snapshot(bot_data', chat_id) = Buffer(chat_id)
           /\ HasBuffer(bot_data, chat_id) => bot_data' = bot_data
           /\ EnsureConversation(bot_data', chat_id) = bot_data'
           /\ \A other \in Chats \ {chat_id} :
                /\ HasBuffer(bot_data', other) <=> HasBuffer(bot_data, other)
                /\ Snapshot(bot_data', other) = Buffer(other)]_vars

\* /start was handled for a chat that holds messages, and they are still there
C13_Witness ==
  /\ last_update.text = "/start"
  /\ Len(Buffer(last_update.chat_id)) >= 2
  /\ Buffer(last_update.chat_id) = appended[last_update.chat_id]

Stamps(bd, chat_id) == {Snapshot(bd, chat_id)[i][1] : i \in 1..Len(Snapshot(bd, chat_id))}

\* C15: two triggers for one chat are never in flight together, and (while
\* the process runs) a message that left a buffer never enters it again, so
\* the messages a successful summary cleared are in no later prompt.
C15_TriggersLinearized ==
  [][/\ \A t, u \in Tasks :
          (t # u /\ tasks'[t].kind = "tldr" /\ tasks'[u].kind = "tldr"
           /\ tasks'[t].chat_id = tasks'[u].chat_id)
          => ~(tasks'[t].pc \in {"notify", "summarizing", "send", "apology", "delete"}
               /\ tasks'[u].pc \in {"notify", "summarizing", "send", "apology", "delete"})
     /\ ~Restarted =>
          \A chat_id \in Chats :
            Stamps(bot_data', chat_id) \subseteq
              Stamps(bot_data, chat_id) \cup (clock + 1 .. clock')]_vars

\* a trigger is in the summarizer call, no other handler runs, and further
\* updates (another /tldr for the same chat among them) are still to come
C15_Witness ==
  \E t \in Tasks :
    /\ tasks[t].pc = "summarizing" /\ update_id < MaxUpdates
    /\ \A u \in Tasks \ {t} : ~Busy(u)

\* C16: a buffer that holds messages becomes empty (other than by a restart)
\* only in the step in which send_message returned for a trigger on that
\* chat whose summarizer call gave a text; line 155 runs in no other step;
\* when send_message raises, the store is unchanged, line 155 does not run
\* and the failure is reported.
C16_ClearOnlyAfterResult ==
  [][/\ \A chat_id \in Chats :
          (~Restarted /\ Buffer(chat_id) # <<>> /\ Snapshot(bot_data', chat_id) = <<>>)
          => \E t \in Tasks :
               /\ tasks[t].pc = "send" /\ tasks[t].chat_id = chat_id
               /\ tasks[t].summary # None /\ tasks[t].calls = 1
               /\ tasks'[t].outcome = "Success" /\ tasks'[t].cleared
     /\ \A t \in Tasks :
          /\ (tasks'[t].cleared /\ ~tasks[t].cleared)
               => tasks[t].pc = "send" /\ tasks[t].summary # None
          /\ (tasks[t].pc = "send" /\ tasks'[t].pc = "apology")
               => /\ bot_data' = bot_data
                  /\ ~tasks'[t].cleared
                  /\ tasks'[t].outcome = "Failure"]_vars

\* the summarizer gave a summary, sending it failed, and the buffer is as it was
C16_Witness ==
  \E t \in Tasks :
    /\ tasks[t].pc = "apology" /\ tasks[t].summary = "- summary"
    /\ tasks[t].outcome = "Failure" /\ ~tasks[t].cleared
    /\ Buffer(tasks[t].chat_id) = tasks[t].at_trigger

\* how far a handler has come
Rank(pc) ==
  CASE pc = "idle" -> 0
    [] pc \in {"reply", "notify"} -> 1
    [] pc = "summarizing" -> 2
    [] pc = "send" -> 3
    [] pc = "apology" -> 4
    [] pc = "delete" -> 5
    [] pc = "done" -> 6

Outcomes == {"InsufficientHistory", "Success", "Failure"}

OthersUnchanged(chat_id) ==
  \A other \in Chats \ {chat_id} :
    /\ HasBuffer(bot_data', other) <=> HasBuffer(bot_data, other)
    /\ Snapshot(bot_data', other) = Buffer(other)

\* C18: storing a message for a chat, and clearing a chat's buffer, leave the
\* buffer of every other chat as it was.
C18_OtherChatsUntouched ==
  [][/\ (Handled /\ last_update'.text \notin Commands)
          => OthersUnchanged(last_update'.chat_id)
     /\ \A t \in Tasks :
          (tasks'[t].cleared /\ ~tasks[t].cleared) => OthersUnchanged(tasks[t].chat_id)]_vars

\* a trigger has cleared its chat's buffer while another chat holds messages
C18_Witness ==
  \E t \in Tasks :
    /\ tasks[t].cleared /\ tasks[t].pc = "delete"
    /\ \E other \in Chats \ {tasks[t].chat_id} : Len(Buffer(other)) > 0

\* C19 as stated: a trigger calls the summarizer at most once, once when the
\* buffer it read has at least 3 messages and not at all otherwise.
C19_Original ==
  \A t \in Tasks :
    tasks[t].kind = "tldr" =>
      /\ tasks[t].calls <= 1
      /\ tasks[t].pc = "done" =>
           tasks[t].calls = IF Len(tasks[t].at_trigger) >= 3 THEN 1 ELSE 0

\* C19 amended: a trigger calls the summarizer at most once: once when the
\* buffer it read has at least 3 messages and its processing notification was
\* sent, not at all otherwise, and not again after a failure.
C19_AtMostOneCall ==
  \A t \in Tasks :
    tasks[t].kind = "tldr" =>
      /\ tasks[t].calls <= 1
      /\ Len(tasks[t].at_trigger) < 3 => tasks[t].calls = 0
      /\ tasks[t].pc \in {"reply", "notify"} => tasks[t].calls = 0
      /\ tasks[t].pc \in {"summarizing", "send", "apology", "delete"} => tasks[t].calls = 1
      /\ tasks[t].pc = "done" =>
           tasks[t].calls = IF Len(tasks[t].at_trigger) >= 3
                               /\ tasks[t].processing_message # "none"
                            THEN 1 ELSE 0

\* a trigger whose one summarizer call failed has returned
C19_Witness ==
  \E t \in Tasks :
    /\ SummarizerFailed(tasks[t]) /\ tasks[t].pc = "done"
    /\ tasks[t].calls = 1 /\ tasks[t].processing_message = "deleted"

\* C20: every chat's buffer is the tail end of the messages stored for it
\* since its last clear (or since the process loaded it), in the order they
\* were stored and with strictly increasing timestamps; messages are missing
\* from the front only when the buffer is full.
C20_BufferIsSuffix ==
  \A chat_id \in Chats :
    LET buffer == Buffer(chat_id)
        stored == appended[chat_id]
    IN  /\ Len(buffer) <= Len(stored)
        /\ buffer = SubSeq(stored, Len(stored) - Len(buffer) + 1, Len(stored))
        /\ Len(buffer) < Len(stored) => Len(buffer) = MAX_BUFFER_SIZE
        /\ \A i \in 1..Len(buffer) - 1 : buffer[i][1] < buffer[i + 1][1]

\* a buffer that lost its oldest message and kept the rest in order
C20_Witness ==
  \E chat_id \in Chats :
    /\ Len(appended[chat_id]) = MAX_BUFFER_SIZE + 1
    /\ Buffer(chat_id) = Tail(appended[chat_id])

====
